---- MODULE Spec2Model ----
(***************************************************************************)
(* Model of the authenticated request pipeline of powerbi-admin:           *)
(*   PowerBIAuth.get_access_token        (src/auth.py)                     *)
(*   PowerBIClient._get_headers/_request/get/post/delete (src/client.py)   *)
(*   GatewayAdmin / WorkspaceAdmin sub-resource listings and mutations     *)
(*                                        (src/powerbi_admin/*.py)         *)
(* One top-level call is in flight at a time (the code is synchronous).    *)
(* The credential handle, the HTTP session and the server are the          *)
(* environment: their outcomes are chosen nondeterministically.            *)
(***************************************************************************)
EXTENDS Integers, Sequences, FiniteSets, TLC

\* ---------------------------------------------------------------- bounds
MaxCalls == 2

\* ------------------------------------------------------ environment sets
\* final response statuses the session can hand back (1xx .. 5xx)
Statuses == {101, 200, 201, 204, 304, 403, 500}

\* raw response bodies: empty, not JSON, JSON objects, a JSON array
Bodies == {"", "<html>", "{}", "{\"value\":[]}", "{\"value\":[\"u1\"]}",
           "{\"value\":[\"u1\",\"u2\"]}", "[]"}

\* token strings the credential chain can yield (it may repeat one: caching
\* is internal to the chain)
TokenValues == {"tokA", "tokB"}

\* what self.credential.get_token(*scope) can do
CredOutcomes == [kind : {"token"}, val : TokenValues]
                \cup [kind : {"CredentialUnavailableError", "Exception"}, val : {""}]

\* ------------------------------------------------------------ value shapes
NoTok == [serial |-> 0, val |-> ""]
NoErr == [class |-> "none", status |-> 0, origin |-> 0]
NoResp == [status |-> 0, body |-> ""]
NoJson == [type |-> "none", hasValue |-> FALSE, value |-> <<>>]
EmptyMapping == [type |-> "object", hasValue |-> FALSE, value |-> <<>>]

NoOut == [kind |-> "none", val |-> NoJson, resp |-> NoResp, err |-> NoErr]
Returned(j) == [kind |-> "return", val |-> j, resp |-> NoResp, err |-> NoErr]
ReturnedResp(r) == [kind |-> "return", val |-> NoJson, resp |-> r, err |-> NoErr]
Raised(e) == [kind |-> "raise", val |-> NoJson, resp |-> NoResp, err |-> e]

LogEv(src, level) == [src |-> src, level |-> level]

RECURSIVE CountLog(_, _, _)
CountLog(l, src, level) ==
  IF l = <<>> THEN 0
  ELSE (IF Head(l) = LogEv(src, level) THEN 1 ELSE 0) + CountLog(Tail(l), src, level)

\* ------------------------------------------------- requests library parts
\* variant: only server errors are raised
raise_for_status_5xx(status) == status >= 500 /\ status < 600

\* Response.raise_for_status(): HTTPError for 4xx and 5xx only
raise_for_status(status) == status >= 400 /\ status < 600

\* Response.json(): the parsed body, or JSONDecodeError
IsJson(body) == body \in {"{}", "{\"value\":[]}", "{\"value\":[\"u1\"]}",
                           "{\"value\":[\"u1\",\"u2\"]}", "[]"}

ParseJson(body) ==
  CASE body = "{}" -> EmptyMapping
    [] body = "{\"value\":[]}" -> [type |-> "object", hasValue |-> TRUE, value |-> <<>>]
    [] body = "{\"value\":[\"u1\"]}" -> [type |-> "object", hasValue |-> TRUE, value |-> <<"u1">>]
    [] body = "{\"value\":[\"u1\",\"u2\"]}" ->
         [type |-> "object", hasValue |-> TRUE, value |-> <<"u1", "u2">>]
    [] body = "[]" -> [type |-> "array", hasValue |-> FALSE, value |-> <<>>]
    [] OTHER -> NoJson

JSONDecodeError == [class |-> "JSONDecodeError", status |-> 0, origin |-> 0]

\* ------------------------------------------------------------ PowerBIAuth
\* variant: the credential's error is wrapped in another class
get_access_token_wrapping(c, n) ==
  IF c.kind = "token"
  THEN [tok |-> [serial |-> n, val |-> c.val], err |-> NoErr, attempts |-> 1,
        logs |-> <<LogEv("auth", "info"), LogEv("auth", "info")>>]
  ELSE [tok |-> NoTok, err |-> [class |-> "RuntimeError", status |-> 0, origin |-> 0],
        attempts |-> 1, logs |-> <<LogEv("auth", "info"), LogEv("auth", "error")>>]

\* variant: a failed acquisition is swallowed and None is handed back
get_access_token_swallowing(c, n) ==
  IF c.kind = "token"
  THEN [tok |-> [serial |-> n, val |-> c.val], err |-> NoErr, attempts |-> 1,
        logs |-> <<LogEv("auth", "info"), LogEv("auth", "info")>>]
  ELSE [tok |-> NoTok, err |-> NoErr, attempts |-> 1,
        logs |-> <<LogEv("auth", "info"), LogEv("auth", "error")>>]

\* get_access_token, given what the credential handle does on its n-th
\* invocation: the token or the re-raised error, and the log lines.
get_access_token(c, n) ==
  IF c.kind = "token"
  THEN [tok |-> [serial |-> n, val |-> c.val], err |-> NoErr, attempts |-> 1,
        logs |-> <<LogEv("auth", "info"), LogEv("auth", "info")>>]
  ELSE IF c.kind = "CredentialUnavailableError"
  THEN [tok |-> NoTok, err |-> [class |-> c.kind, status |-> 0, origin |-> n], attempts |-> 1,
        logs |-> <<LogEv("auth", "info"), LogEv("auth", "error"), LogEv("auth", "error")>>]
  ELSE [tok |-> NoTok, err |-> [class |-> c.kind, status |-> 0, origin |-> n], attempts |-> 1,
        logs |-> <<LogEv("auth", "info"), LogEv("auth", "error")>>]

\* ---------------------------------------------------------- PowerBIClient
\* variant: a token kept from an earlier call is put in the headers
_get_headers_cached(access_token, earlier) ==
  IF earlier # NoTok THEN earlier ELSE access_token

\* _get_headers: the bearer token is the one just obtained; `earlier` is the
\* token an earlier call got (the client keeps none)
_get_headers(access_token, earlier) == access_token

\* variant: get tolerates an unparsable body as post does
get_body_tolerant(r) ==
  IF IsJson(r.body)
  THEN [out |-> Returned(ParseJson(r.body)), logs |-> <<>>]
  ELSE [out |-> Returned(EmptyMapping), logs |-> <<LogEv("client", "warning")>>]

\* get: response.json(), nothing caught
get_body(r) ==
  IF IsJson(r.body)
  THEN [out |-> Returned(ParseJson(r.body)), logs |-> <<>>]
  ELSE [out |-> Raised(JSONDecodeError), logs |-> <<>>]

\* variant: post swallows the parse failure without the warning
post_body_silent(r) ==
  IF r.status = 204 \/ ~IsJson(r.body)
  THEN [out |-> Returned(EmptyMapping), logs |-> <<>>]
  ELSE [out |-> Returned(ParseJson(r.body)), logs |-> <<>>]

\* variant: post lets the parse failure through
post_body_nocatch(r) ==
  IF r.status = 204
  THEN [out |-> Returned(EmptyMapping), logs |-> <<>>]
  ELSE IF IsJson(r.body)
  THEN [out |-> Returned(ParseJson(r.body)), logs |-> <<>>]
  ELSE [out |-> Raised(JSONDecodeError), logs |-> <<>>]

\* post: 204 -> {}, else response.json(), JSONDecodeError -> warning and {}
post_body(r) ==
  IF r.status = 204
  THEN [out |-> Returned(EmptyMapping), logs |-> <<>>]
  ELSE IF IsJson(r.body)
  THEN [out |-> Returned(ParseJson(r.body)), logs |-> <<>>]
  ELSE [out |-> Returned(EmptyMapping), logs |-> <<LogEv("client", "warning")>>]

\* variant: delete only knows the 200/204 no-content case
delete_body_nocatch(r) ==
  IF r.status \in {200, 204} /\ r.body = ""
  THEN [out |-> Returned(EmptyMapping), logs |-> <<LogEv("client", "debug")>>]
  ELSE IF IsJson(r.body)
  THEN [out |-> Returned(ParseJson(r.body)), logs |-> <<>>]
  ELSE [out |-> Raised(JSONDecodeError), logs |-> <<>>]

\* delete: 200/204 without content -> {}, else as post
delete_body(r) ==
  IF r.status \in {200, 204} /\ r.body = ""
  THEN [out |-> Returned(EmptyMapping), logs |-> <<LogEv("client", "debug")>>]
  ELSE IF IsJson(r.body)
  THEN [out |-> Returned(ParseJson(r.body)), logs |-> <<>>]
  ELSE [out |-> Returned(EmptyMapping), logs |-> <<LogEv("client", "warning")>>]

\* --------------------------------------------------------------- operations
AuthOps == {"get_access_token"}
ClientOps == {"get", "post", "delete"}
PlainListOps == {"get_gateways", "get_gateway_datasources", "get_workspaces"}
SubListOps == {"get_gateway_datasource_users", "get_workspace_users"}
MutOps == {"add_datasource_user", "add_workspace_user", "delete_workspace_user"}
DomainOps == PlainListOps \cup SubListOps \cup MutOps
Ops == AuthOps \cup ClientOps \cup DomainOps

\* the executor operation an operation enters the client through
Entry(o) ==
  CASE o \in ClientOps -> o
    [] o \in PlainListOps \cup SubListOps -> "get"
    [] o \in {"add_datasource_user", "add_workspace_user"} -> "post"
    [] o = "delete_workspace_user" -> "_request"
    [] OTHER -> "none"

Verb(o) ==
  CASE Entry(o) = "get" -> "GET"
    [] Entry(o) = "post" -> "POST"
    [] OTHER -> "DELETE"

Endpoint(o) ==
  CASE o = "get_gateways" -> "gateways"
    [] o = "get_gateway_datasources" -> "gateways/gw1/datasources"
    [] o \in {"get_gateway_datasource_users", "add_datasource_user"}
         -> "gateways/gw1/datasources/ds1/users"
    [] o = "get_workspaces" -> "groups"
    [] o \in {"get_workspace_users", "add_workspace_user"} -> "groups/g1/users"
    [] o = "delete_workspace_user" -> "groups/g1/users/u1"
    [] OTHER -> "groups/g1/users/u1"

\* arguments of the add operations ("" is None)
NoArgs == [ptype |-> "", email |-> "", display |-> "", profile |-> ""]
ArgsOf(o) ==
  CASE o = "add_workspace_user" ->
         [ptype : {"User", "Group", "ServicePrincipal", "App"}, email : {"", "a@x"},
          display : {""}, profile : {""}]
    [] o = "add_datasource_user" ->
         [ptype : {"User", "Group", "ServicePrincipal"}, email : {"", "a@x"},
          display : {"", "Ann"}, profile : {"", "p1"}]
    [] OTHER -> {NoArgs}

NoPayload == [identifier |-> "", principalType |-> "", emailAddress |-> "",
              displayName |-> "", profile |-> ""]

\* variant: the email is sent whenever one was supplied, whatever the type
WorkspacePayload_any_type(a) ==
  [identifier |-> "u1", principalType |-> a.ptype,
   emailAddress |-> IF a.email # "" THEN a.email
                    ELSE (IF a.ptype = "User" THEN "u1" ELSE ""),
   displayName |-> "", profile |-> ""]

\* add_workspace_user's payload ("" is an absent key)
WorkspacePayload(a) ==
  [identifier |-> "u1", principalType |-> a.ptype,
   emailAddress |-> IF a.ptype = "User"
                    THEN (IF a.email # "" THEN a.email ELSE "u1")
                    ELSE "",
   displayName |-> "", profile |-> ""]

\* add_datasource_user's payload
DatasourcePayload(a) ==
  [identifier |-> "u1", principalType |-> a.ptype,
   emailAddress |-> a.email, displayName |-> a.display,
   profile |-> IF a.ptype = "ServicePrincipal" THEN a.profile ELSE ""]

Payload(o, a) ==
  CASE o = "add_workspace_user" -> WorkspacePayload(a)
    [] o = "add_datasource_user" -> DatasourcePayload(a)
    [] OTHER -> NoPayload

\* log lines a domain operation writes before it calls the executor
PrologueLogs(o, a) ==
  CASE o \in {"get_gateways", "get_gateway_datasources", "get_gateway_datasource_users"}
         -> <<LogEv("gateway", "info")>>
    [] o \in {"get_workspaces", "get_workspace_users", "delete_workspace_user"}
         -> <<LogEv("workspace", "info")>>
    [] o = "add_workspace_user" ->
         <<LogEv("workspace", "info")>>
         \o (IF a.ptype = "User" /\ a.email = "" THEN <<LogEv("workspace", "warning")>> ELSE <<>>)
    [] o = "add_datasource_user" ->
         <<LogEv("gateway", "info")>>
         \o (IF ~(a.ptype = "ServicePrincipal" /\ a.profile # "")
                /\ a.ptype = "User" /\ a.email = ""
             THEN <<LogEv("gateway", "warning")>> ELSE <<>>)
    [] OTHER -> <<>>

Module(o) == IF o \in {"get_workspaces", "get_workspace_users", "add_workspace_user",
                        "delete_workspace_user"}
             THEN "workspace" ELSE "gateway"

\* hasattr(e, 'response') and e.response is not None
HasResponse(e) == e.class = "HTTPError"

\* the error diagnostics of an except block (message, then status and body)
ErrorLogs(m, e) ==
  <<LogEv(m, "error")>>
  \o (IF HasResponse(e) THEN <<LogEv(m, "error"), LogEv(m, "error")>> ELSE <<>>)

AttributeError == [class |-> "AttributeError", status |-> 0, origin |-> 0]

NoDom == [kind |-> "none", list |-> <<>>, flag |-> FALSE, err |-> NoErr]
DomList(l) == [kind |-> "return", list |-> l, flag |-> FALSE, err |-> NoErr]
DomBool(b) == [kind |-> "return", list |-> <<>>, flag |-> b, err |-> NoErr]
DomRaised(e) == [kind |-> "raise", list |-> <<>>, flag |-> FALSE, err |-> e]

\* response.get("value", []) on what get returned
ValueOf(j) == IF j.hasValue THEN j.value ELSE <<>>

\* get_gateways / get_gateway_datasources / get_workspaces: nothing caught
plain_listing(m, x) ==
  IF x.kind = "raise" THEN [out |-> DomRaised(x.err), logs |-> <<>>]
  ELSE IF x.val.type # "object" THEN [out |-> DomRaised(AttributeError), logs |-> <<>>]
  ELSE [out |-> DomList(ValueOf(x.val)), logs |-> <<LogEv(m, "info")>>]

\* variant: the sub-resource listing lets HTTP errors through
sub_listing_propagating(m, x) ==
  IF x.kind = "raise" /\ x.err.class = "HTTPError"
  THEN [out |-> DomRaised(x.err), logs |-> <<>>]
  ELSE IF x.kind = "raise" THEN [out |-> DomList(<<>>), logs |-> ErrorLogs(m, x.err)]
  ELSE IF x.val.type # "object"
  THEN [out |-> DomList(<<>>), logs |-> ErrorLogs(m, AttributeError)]
  ELSE [out |-> DomList(ValueOf(x.val)), logs |-> <<LogEv(m, "info")>>]

\* get_gateway_datasource_users / get_workspace_users: except Exception -> []
sub_listing(m, x) ==
  IF x.kind = "raise" THEN [out |-> DomList(<<>>), logs |-> ErrorLogs(m, x.err)]
  ELSE IF x.val.type # "object"
  THEN [out |-> DomList(<<>>), logs |-> ErrorLogs(m, AttributeError)]
  ELSE [out |-> DomList(ValueOf(x.val)), logs |-> <<LogEv(m, "info")>>]

\* variant: only HTTP errors count as failure
mutation_http_only(m, x) ==
  IF x.kind = "raise" /\ x.err.class = "HTTPError"
  THEN [out |-> DomBool(FALSE), logs |-> ErrorLogs(m, x.err)]
  ELSE [out |-> DomBool(TRUE), logs |-> <<LogEv(m, "info")>>]

\* add_datasource_user / add_workspace_user / delete_workspace_user
mutation(m, x) ==
  IF x.kind = "raise" THEN [out |-> DomBool(FALSE), logs |-> ErrorLogs(m, x.err)]
  ELSE [out |-> DomBool(TRUE), logs |-> <<LogEv(m, "info")>>]

domain_result(o, x) ==
  CASE o \in PlainListOps -> plain_listing(Module(o), x)
    [] o \in SubListOps -> sub_listing(Module(o), x)
    [] OTHER -> mutation(Module(o), x)

\* ------------------------------------------------------------------ state
VARIABLES
  pc,          \* where the call in flight is: idle, auth, headers, send, status, wrap, domain, done
  op,          \* the operation in flight
  args,        \* its arguments
  calls,       \* calls finished so far
  tokenSerial, \* invocations of credential.get_token so far
  prevTok,     \* the token the latest earlier call obtained
  tokCalls,    \* get_access_token invocations of the call in flight
  credCalls,   \* credential.get_token invocations of the call in flight
  credRaised,  \* the error the credential handle raised in this call
  authOut,     \* what get_access_token returned or raised in this call
  hdr,         \* bearer token of the headers built for this call
  sent,        \* session.request invocations of this call
  req,         \* the request issued on the session
  resp,        \* the response the session handed back
  exOut,       \* outcome of the executor operation (get/post/delete/_request)
  domOut,      \* outcome of the domain operation
  log,         \* log events of this call, in order
  client,      \* the PowerBIClient object: auth handle, session, BASE_URL
  mpc,         \* where main() is: off (not running), start, gateways, gateway, datasources,
               \* datasource, users, end
  gateways,    \* main's list of gateways
  datasources, \* main's list of datasources of the gateway at hand
  gi,          \* position of the gateway at hand in gateways
  di,          \* position of the datasource at hand in datasources
  returned,    \* (gateway, datasource) positions handed to main so far
  attempted,   \* (gateway, datasource) positions whose user listing was started
  ulFailed     \* (gateway, datasource) positions whose user listing hit an error

vars == <<pc, op, args, calls, tokenSerial, prevTok, tokCalls, credCalls, credRaised,
          authOut, hdr, sent, req, resp, exOut, domOut, log, client,
          mpc, gateways, datasources, gi, di, returned, attempted, ulFailed>>

mvars == <<mpc, gateways, datasources, gi, di, returned, attempted, ulFailed>>

NoAuthOut == [tok |-> NoTok, err |-> NoErr]
NoReq == [method |-> "", endpoint |-> "", auth |-> NoTok, json |-> NoPayload]

\* PowerBIClient.__init__: the auth handle and a new session (no request yet)
NewClient == [auth |-> "PowerBIAuth", session |-> [requests |-> 0],
              base_url |-> "https://api.powerbi.com/v1.0/myorg"]

\* the session after carrying one more request
SessionUsed(c) == [c EXCEPT !.session.requests = @ + 1]

\* a client just built, no call made
Fresh ==
  /\ client = NewClient
  /\ pc = "idle" /\ op = "none" /\ args = NoArgs
  /\ calls = 0 /\ tokenSerial = 0 /\ prevTok = NoTok
  /\ tokCalls = 0 /\ credCalls = 0 /\ credRaised = NoErr /\ authOut = NoAuthOut
  /\ hdr = NoTok /\ sent = 0 /\ req = NoReq /\ resp = NoResp
  /\ exOut = NoOut /\ domOut = NoDom /\ log = <<>>
  /\ gateways = <<>> /\ datasources = <<>> /\ gi = 0 /\ di = 0
  /\ returned = {} /\ attempted = {} /\ ulFailed = {}

Init == Fresh /\ mpc = "off"

\* where control goes once the executor operation has returned or raised
AfterExecutor(o) == IF o \in DomainOps THEN "domain" ELSE "done"

\* an operation is entered
Invoke(o, a) ==
  /\ pc = "idle"
  /\ op' = o /\ args' = a
  /\ pc' = IF o \in AuthOps THEN "auth" ELSE "headers"
  /\ log' = PrologueLogs(o, a)
  /\ UNCHANGED <<client, calls, tokenSerial, prevTok, tokCalls, credCalls, credRaised, authOut,
                 hdr, sent, req, resp, exOut, domOut>>

\* a caller starts an operation
Call(o, a) ==
  /\ mpc = "off" /\ calls < MaxCalls
  /\ Invoke(o, a)
  /\ UNCHANGED mvars

\* PowerBIAuth.get_access_token called by itself
AuthGetAccessToken(c) ==
  /\ pc = "auth"
  /\ LET r == get_access_token(c, tokenSerial + 1) IN
       /\ tokenSerial' = tokenSerial + r.attempts
       /\ credCalls' = credCalls + r.attempts
       /\ tokCalls' = tokCalls + 1
       /\ credRaised' = IF c.kind = "token" THEN NoErr
                        ELSE [class |-> c.kind, status |-> 0, origin |-> tokenSerial + 1]
       /\ authOut' = [tok |-> r.tok, err |-> r.err]
       /\ log' = log \o r.logs
  /\ pc' = "done"
  /\ UNCHANGED mvars
  /\ UNCHANGED <<client, op, args, calls, prevTok, hdr, sent, req, resp, exOut, domOut>>

\* _request up to its headers: _get_headers calls get_access_token
GetHeaders(c) ==
  /\ pc = "headers"
  /\ LET r == get_access_token(c, tokenSerial + 1) IN
       /\ tokenSerial' = tokenSerial + r.attempts
       /\ credCalls' = credCalls + r.attempts
       /\ tokCalls' = tokCalls + 1
       /\ credRaised' = IF c.kind = "token" THEN NoErr
                        ELSE [class |-> c.kind, status |-> 0, origin |-> tokenSerial + 1]
       /\ authOut' = [tok |-> r.tok, err |-> r.err]
       /\ IF r.err = NoErr
          THEN /\ hdr' = _get_headers(r.tok, prevTok)
               /\ log' = log \o r.logs \o <<LogEv("client", "debug")>>
               /\ pc' = "send"
               /\ exOut' = exOut
          ELSE /\ hdr' = hdr
               /\ log' = log \o r.logs
               /\ pc' = AfterExecutor(op)
               /\ exOut' = Raised(r.err)
  /\ UNCHANGED mvars
  /\ UNCHANGED <<client, op, args, calls, prevTok, sent, req, resp, domOut>>

\* bodiless statuses: the HTTP layer hands back no content for them
NoBodyStatus(s) == (s >= 100 /\ s < 200) \/ s \in {204, 304}

ConnectionError == [class |-> "ConnectionError", status |-> 0, origin |-> 0]

\* session.request answers
SessionResponds(s, b) ==
  /\ pc = "send"
  /\ NoBodyStatus(s) => b = ""
  /\ client' = SessionUsed(client)
  /\ sent' = sent + 1
  /\ req' = [method |-> Verb(op), endpoint |-> Endpoint(op), auth |-> hdr,
             json |-> Payload(op, args)]
  /\ resp' = [status |-> s, body |-> b]
  /\ pc' = "status"
  /\ UNCHANGED mvars
  /\ UNCHANGED <<op, args, calls, tokenSerial, prevTok, tokCalls, credCalls, credRaised,
                 authOut, hdr, exOut, domOut, log>>

\* session.request fails below HTTP: RequestException logged and re-raised
SessionFails ==
  /\ pc = "send"
  /\ client' = SessionUsed(client)
  /\ sent' = sent + 1
  /\ req' = [method |-> Verb(op), endpoint |-> Endpoint(op), auth |-> hdr,
             json |-> Payload(op, args)]
  /\ exOut' = Raised(ConnectionError)
  /\ log' = log \o <<LogEv("client", "error")>>
  /\ pc' = AfterExecutor(op)
  /\ UNCHANGED mvars
  /\ UNCHANGED <<op, args, calls, tokenSerial, prevTok, tokCalls, credCalls, credRaised,
                 authOut, hdr, resp, domOut>>

HTTPError(s) == [class |-> "HTTPError", status |-> s, origin |-> 0]

\* the rest of _request: raise_for_status, then return the response
request_result(r) ==
  IF raise_for_status(r.status)
  THEN [out |-> Raised(HTTPError(r.status)), logs |-> <<LogEv("client", "error")>>]
  ELSE [out |-> ReturnedResp(r), logs |-> <<LogEv("client", "debug")>>]

RaiseForStatus ==
  /\ pc = "status"
  /\ LET r == request_result(resp) IN
       /\ exOut' = r.out
       /\ log' = log \o r.logs
       /\ pc' = IF r.out.kind = "return" /\ Entry(op) # "_request"
                THEN "wrap" ELSE AfterExecutor(op)
  /\ UNCHANGED mvars
  /\ UNCHANGED <<client, op, args, calls, tokenSerial, prevTok, tokCalls, credCalls, credRaised,
                 authOut, hdr, sent, req, resp, domOut>>

\* get / post / delete turn the response into their result
wrap_result(e, r) ==
  CASE e = "get" -> get_body(r)
    [] e = "post" -> post_body(r)
    [] OTHER -> delete_body(r)

Wrap ==
  /\ pc = "wrap"
  /\ LET r == wrap_result(Entry(op), resp) IN
       /\ exOut' = r.out
       /\ log' = log \o r.logs
  /\ pc' = AfterExecutor(op)
  /\ UNCHANGED mvars
  /\ UNCHANGED <<client, op, args, calls, tokenSerial, prevTok, tokCalls, credCalls, credRaised,
                 authOut, hdr, sent, req, resp, domOut>>

\* the domain operation finishes on what the executor gave it
DomainReturn ==
  /\ pc = "domain"
  /\ LET r == domain_result(op, exOut) IN
       /\ domOut' = r.out
       /\ log' = log \o r.logs
  /\ pc' = "done"
  /\ UNCHANGED mvars
  /\ UNCHANGED <<client, op, args, calls, tokenSerial, prevTok, tokCalls, credCalls, credRaised,
                 authOut, hdr, sent, req, resp, exOut>>

\* the operation's result goes to the caller; the next call starts clean
Return ==
  /\ pc = "done"
  /\ pc' = "idle" /\ op' = "none" /\ args' = NoArgs
  /\ calls' = calls + 1
  /\ prevTok' = IF authOut.tok # NoTok THEN authOut.tok ELSE prevTok
  /\ tokCalls' = 0 /\ credCalls' = 0 /\ credRaised' = NoErr /\ authOut' = NoAuthOut
  /\ hdr' = NoTok /\ sent' = 0 /\ req' = NoReq /\ resp' = NoResp
  /\ exOut' = NoOut /\ domOut' = NoDom /\ log' = <<>>
  /\ UNCHANGED <<tokenSerial, client>>

\* the call is over
Finish ==
  /\ mpc = "off"
  /\ Return
  /\ UNCHANGED mvars

Next ==
  \/ \E o \in Ops : \E a \in ArgsOf(o) : Call(o, a)
  \/ \E c \in CredOutcomes : AuthGetAccessToken(c)
  \/ \E c \in CredOutcomes : GetHeaders(c)
  \/ \E s \in Statuses : \E b \in Bodies : SessionResponds(s, b)
  \/ SessionFails
  \/ RaiseForStatus
  \/ Wrap
  \/ DomainReturn
  \/ Finish

Spec == Init /\ [][Next]_vars

\* ------------------------------------------- sample_gateway_users.main
\* gateway and datasource positions the traversal is followed over (the lists
\* in Bodies have at most this many items)
MaxList == 2

Positions == (1 .. MaxList) \X (1 .. MaxList)

End == [mpc |-> "end", gi |-> 0, di |-> 0]

\* the two for loops: the next datasource, else the next gateway, else the end
advance(g, d, nG, nD) ==
  IF d < nD THEN [mpc |-> "datasource", gi |-> g, di |-> d + 1]
  ELSE IF g < nG THEN [mpc |-> "gateway", gi |-> g + 1, di |-> 0]
  ELSE End

\* variant: the traversal gives up when a datasource shows no users
after_users_stop_on_empty(x, g, d, nG, nD) ==
  IF x.kind = "raise" \/ x.list = <<>> THEN End
  ELSE advance(g, d, nG, nD)

\* after get_gateway_datasource_users: print the users (or that there are
\* none) and go on; an exception would end main in its except block
after_users(x, g, d, nG, nD) ==
  IF x.kind = "raise" THEN End
  ELSE advance(g, d, nG, nD)

MainInit == Fresh /\ mpc = "start"

\* gateways = gw_admin.get_gateways()
MainGetGateways ==
  /\ mpc = "start"
  /\ Invoke("get_gateways", NoArgs)
  /\ mpc' = "gateways"
  /\ UNCHANGED <<gateways, datasources, gi, di, returned, attempted, ulFailed>>

\* if not gateways: return; else the first gateway
MainAfterGateways ==
  /\ mpc = "gateways"
  /\ Return
  /\ IF domOut.kind = "raise" \/ domOut.list = <<>>
     THEN mpc' = "end" /\ gi' = 0 /\ gateways' = <<>>
     ELSE mpc' = "gateway" /\ gi' = 1 /\ gateways' = domOut.list
  /\ UNCHANGED <<datasources, di, returned, attempted, ulFailed>>

\* datasources = gw_admin.get_gateway_datasources(gateway_id)
MainGetDatasources ==
  /\ mpc = "gateway"
  /\ Invoke("get_gateway_datasources", NoArgs)
  /\ mpc' = "datasources"
  /\ UNCHANGED <<gateways, datasources, gi, di, returned, attempted, ulFailed>>

\* if not datasources: continue; else the first datasource
MainAfterDatasources ==
  /\ mpc = "datasources"
  /\ Return
  /\ IF domOut.kind = "raise"
     THEN /\ mpc' = "end" /\ gi' = 0 /\ di' = 0
          /\ datasources' = <<>> /\ returned' = returned
     ELSE /\ datasources' = domOut.list
          /\ returned' = returned \cup {<<gi, d>> : d \in 1 .. Len(domOut.list)}
          /\ LET n == advance(gi, 0, Len(gateways), Len(domOut.list)) IN
               mpc' = n.mpc /\ gi' = n.gi /\ di' = n.di
  /\ UNCHANGED <<gateways, attempted, ulFailed>>

\* users = gw_admin.get_gateway_datasource_users(gateway_id, datasource_id)
MainGetUsers ==
  /\ mpc = "datasource"
  /\ Invoke("get_gateway_datasource_users", NoArgs)
  /\ attempted' = attempted \cup {<<gi, di>>}
  /\ mpc' = "users"
  /\ UNCHANGED <<gateways, datasources, gi, di, returned, ulFailed>>

\* the users are printed and the loops go on
MainAfterUsers ==
  /\ mpc = "users"
  /\ Return
  /\ ulFailed' = IF exOut.kind = "raise" THEN ulFailed \cup {<<gi, di>>} ELSE ulFailed
  /\ LET n == after_users(domOut, gi, di, Len(gateways), Len(datasources)) IN
       mpc' = n.mpc /\ gi' = n.gi /\ di' = n.di
  /\ UNCHANGED <<gateways, datasources, returned, attempted>>

MainNext ==
  \/ MainGetGateways
  \/ MainAfterGateways
  \/ MainGetDatasources
  \/ MainAfterDatasources
  \/ MainGetUsers
  \/ MainAfterUsers
  \/ \E c \in CredOutcomes : GetHeaders(c)
  \/ \E s \in Statuses : \E b \in Bodies : SessionResponds(s, b)
  \/ SessionFails
  \/ RaiseForStatus
  \/ Wrap
  \/ DomainReturn

\* main is one sequential thread and every call it blocks on comes back with
\* a response or an exception: it keeps taking steps until it ends
MainSpec == MainInit /\ [][MainNext]_vars /\ WF_vars(MainNext)

\* ================================================================= claims
Is2xx(s) == s >= 200 /\ s < 300

\* the executor operation of the call in flight has returned or raised
ExDone == pc \in {"domain", "done"} /\ op \in ClientOps \cup DomainOps

\* ... and it got a response from the session
ExDoneResp == ExDone /\ resp # NoResp

RaisedHttp(x, s) == x.kind = "raise" /\ x.err.class = "HTTPError" /\ x.err.status = s

\* C1 as stated: for GET, POST and DELETE, every response whose status is not
\* 2xx (1xx and 3xx included) makes the executor raise an error carrying the
\* response's status; no mapping is returned.
C1_NonSuccessRaises ==
  (ExDoneResp /\ ~Is2xx(resp.status)) => RaisedHttp(exOut, resp.status)

\* C1 amended: for GET, POST and DELETE, every 4xx or 5xx response makes the
\* executor raise an error carrying exactly the response's status and no
\* mapping is returned; a 1xx or 3xx response is never raised as an HTTP error.
C1_ClientServerErrorRaises ==
  /\ (ExDoneResp /\ resp.status >= 400 /\ resp.status < 600)
       => RaisedHttp(exOut, resp.status)
  /\ (ExDoneResp /\ resp.status < 400)
       => ~(exOut.kind = "raise" /\ exOut.err.class = "HTTPError")

C1_Witness ==
  /\ pc = "done" /\ op = "delete"
  /\ resp.status = 403 /\ RaisedHttp(exOut, 403)

\* C2: for every 2xx response with an empty body (201 as well as 200 and 204)
\* post and delete return the empty mapping and do not raise.
C2_EmptyBodySuccess ==
  (ExDoneResp /\ Entry(op) \in {"post", "delete"} /\ Is2xx(resp.status) /\ resp.body = "")
    => exOut = Returned(EmptyMapping)

C2_Witness ==
  /\ pc = "done" /\ op = "delete"
  /\ resp = [status |-> 201, body |-> ""] /\ exOut = Returned(EmptyMapping)

\* C3: for a 200 response whose non-empty body is not JSON, post and delete
\* return the empty mapping, log exactly one warning and do not raise.
C3_MalformedSuccessTolerated ==
  (ExDoneResp /\ Entry(op) \in {"post", "delete"} /\ resp.status = 200
     /\ resp.body # "" /\ ~IsJson(resp.body))
    => /\ exOut = Returned(EmptyMapping)
       /\ CountLog(log, "client", "warning") = 1

C3_Witness ==
  /\ pc = "done" /\ op = "post"
  /\ resp = [status |-> 200, body |-> "<html>"]
  /\ exOut = Returned(EmptyMapping) /\ CountLog(log, "client", "warning") = 1

\* C4: a GET whose 2xx response has an empty or non-JSON body ends in a parse
\* error raised to the caller, never in an empty mapping.
C4_GetParseErrorPropagates ==
  (ExDoneResp /\ Entry(op) = "get" /\ Is2xx(resp.status) /\ ~IsJson(resp.body))
    => (exOut.kind = "raise" /\ exOut.err = JSONDecodeError)

C4_Witness ==
  /\ pc = "done" /\ op = "get"
  /\ resp = [status |-> 200, body |-> ""]
  /\ exOut = Raised(JSONDecodeError)

\* C5: every get/post/delete call invokes get_access_token exactly once, before
\* its request is issued; the request's Authorization carries the token that
\* invocation returned, never the token an earlier call obtained.
C5_FreshTokenPerCall ==
  (op \in ClientOps \cup DomainOps) =>
    /\ (pc = "headers" => (tokCalls = 0 /\ sent = 0))
    /\ (pc # "headers" => tokCalls = 1)
    /\ (sent > 0 =>
          /\ req.auth = authOut.tok
          /\ req.auth # NoTok
          /\ req.auth.serial = tokenSerial
          /\ req.auth # prevTok
          /\ req.auth.serial > prevTok.serial)

\* a second call whose fresh token has the same string as the earlier call's
C5_Witness ==
  /\ calls = 1 /\ op \in ClientOps /\ sent = 1
  /\ prevTok # NoTok /\ req.auth.val = prevTok.val /\ req.auth.serial = 2

\* C7: when the credential handle reports that no strategy is available, one
\* get_access_token call invokes it once, raises that very error (same class,
\* same object) and yields no token.
C7_UnavailableReraised ==
  (tokCalls > 0 /\ credRaised.class = "CredentialUnavailableError")
    => /\ authOut.err = credRaised
       /\ authOut.tok = NoTok
       /\ credCalls = 1 /\ tokCalls = 1

C7_Witness ==
  /\ pc = "done" /\ op = "get_access_token"
  /\ credRaised.class = "CredentialUnavailableError"
  /\ authOut.err = credRaised /\ credCalls = 1

\* how a finished executor call ended
Endings(x, r) ==
  {k \in {"mapping", "tolerated", "ApiError", "TransportError", "ParseError",
          "CredentialError"} :
     \/ k = "mapping" /\ x.kind = "return" /\ IsJson(r.body) /\ x.val = ParseJson(r.body)
     \/ k = "tolerated" /\ x.kind = "return" /\ ~IsJson(r.body) /\ x.val = EmptyMapping
     \/ k = "ApiError" /\ x.kind = "raise" /\ x.err.class = "HTTPError"
     \/ k = "TransportError" /\ x.kind = "raise" /\ x.err.class = "ConnectionError"
     \/ k = "ParseError" /\ x.kind = "raise" /\ x.err.class = "JSONDecodeError"
     \/ k = "CredentialError" /\ x.kind = "raise"
          /\ x.err.class \in {"CredentialUnavailableError", "Exception"}}

\* C8 as stated: every get/post/delete call issues at most one request and
\* ends in exactly one of: returned mapping, ApiError, TransportError,
\* tolerated empty-mapping success.
C8_FourEndings ==
  (ExDone /\ Entry(op) \in ClientOps) =>
    /\ sent <= 1
    /\ Cardinality(Endings(exOut, resp)) = 1
    /\ Endings(exOut, resp) \subseteq {"mapping", "tolerated", "ApiError", "TransportError"}

\* C8 amended: every get/post/delete call issues at most one request and ends
\* in exactly one of: returned parsed body, ApiError, TransportError, tolerated
\* empty-mapping success (post and delete only), a parse error (get only), or
\* the token-acquisition error, raised before any request is issued.
C8_SixEndings ==
  (ExDone /\ Entry(op) \in ClientOps) =>
    /\ sent <= 1
    /\ Cardinality(Endings(exOut, resp)) = 1
    /\ ("ParseError" \in Endings(exOut, resp) => Entry(op) = "get")
    /\ ("tolerated" \in Endings(exOut, resp) => Entry(op) \in {"post", "delete"})
    /\ ("CredentialError" \in Endings(exOut, resp) => sent = 0)
    /\ (sent = 0 => Endings(exOut, resp) = {"CredentialError"})

C8_Witness ==
  /\ pc = "done" /\ op = "get" /\ sent = 1
  /\ resp = [status |-> 200, body |-> "<html>"]
  /\ Endings(exOut, resp) = {"ParseError"}

\* C9: get_gateway_datasource_users and get_workspace_users never raise; when
\* the underlying get fails (HTTP error, transport error, parse error, token
\* error) they log an error and return the empty list; otherwise they return
\* the body's "value" list, the empty list when there is none.
C9_SubListingDegrades ==
  (pc = "done" /\ op \in SubListOps) =>
    /\ domOut.kind = "return"
    /\ (exOut.kind = "raise" =>
          (domOut.list = <<>> /\ CountLog(log, Module(op), "error") >= 1))
    /\ ((exOut.kind = "return" /\ resp.body = "{\"value\":[\"u1\"]}")
          => domOut.list = <<"u1">>)
    /\ ((exOut.kind = "return" /\ resp.body \in {"{}", "{\"value\":[]}"})
          => domOut.list = <<>>)
    /\ ((exOut.kind = "return" /\ resp.body = "{\"value\":[\"u1\",\"u2\"]}")
          => domOut.list = <<"u1", "u2">>)

C9_Witness ==
  /\ pc = "done" /\ op = "get_gateway_datasource_users"
  /\ req.method = "GET" /\ req.endpoint = "gateways/gw1/datasources/ds1/users"
  /\ resp.status = 403 /\ RaisedHttp(exOut, 403)
  /\ domOut = DomList(<<>>) /\ CountLog(log, "gateway", "error") >= 1

\* C10: add_datasource_user, add_workspace_user and delete_workspace_user never
\* raise; they return true exactly when the executor call returned (a 200 with
\* empty body on DELETE included) and false exactly when it raised.
C10_MutationBoolean ==
  (pc = "done" /\ op \in MutOps) =>
    /\ domOut.kind = "return"
    /\ (domOut.flag <=> exOut.kind = "return")
    /\ (domOut.flag <=> (authOut.err = NoErr /\ resp # NoResp
                          /\ ~(resp.status >= 400 /\ resp.status < 600)))

C10_Witness ==
  /\ pc = "done" /\ op = "delete_workspace_user"
  /\ req.method = "DELETE" /\ req.endpoint = "groups/g1/users/u1"
  /\ resp = [status |-> 200, body |-> ""]
  /\ domOut = DomBool(TRUE)

\* C11: add_workspace_user posts to groups/g1/users a body whose emailAddress
\* is the identifier for a User without email, the given email for a User with
\* one, and absent for every other principal type even when an email was
\* given; on a 200 response it returns true.
C11_WorkspaceUserEmail ==
  (op = "add_workspace_user" /\ sent > 0) =>
    /\ req.method = "POST" /\ req.endpoint = "groups/g1/users"
    /\ req.json.principalType = args.ptype
    /\ ((args.ptype = "User" /\ args.email = "")
          => (req.json.emailAddress = req.json.identifier /\ req.json.identifier # ""))
    /\ ((args.ptype = "User" /\ args.email # "") => req.json.emailAddress = args.email)
    /\ (args.ptype # "User" => req.json.emailAddress = "")
    /\ ((pc = "done" /\ resp.status = 200) => domOut = DomBool(TRUE))

C11_Witness ==
  /\ pc = "done" /\ op = "add_workspace_user"
  /\ args.ptype = "User" /\ args.email = ""
  /\ req.json.emailAddress = "u1" /\ req.json.identifier = "u1"
  /\ resp.status = 200 /\ domOut = DomBool(TRUE)

\* C12: every domain operation enters the executor through get, post or
\* delete, never through a lower-level operation.
C12_PublicEntryOnly ==
  (op \in DomainOps /\ sent > 0) => Entry(op) \in {"get", "post", "delete"}

\* C14: when get_access_token raises inside a get/post/delete call, the call
\* issues no request, its caller gets that very error, and the client (auth
\* handle, session, base URL) is as it was; when the call is over nothing of it
\* is left for the next call (no token, no request, same client).
C14_FailedTokenLeavesNoTrace ==
  [][ /\ (pc = "headers" /\ credRaised' # NoErr) =>
            /\ pc' = AfterExecutor(op)
            /\ exOut' = Raised(credRaised')
            /\ sent' = 0 /\ req' = NoReq /\ hdr' = NoTok
            /\ client' = client
      /\ (pc \in {"domain", "done"} /\ op \in ClientOps \cup DomainOps /\ credRaised # NoErr) =>
            /\ sent' = 0 /\ req' = NoReq
            /\ client' = client
            /\ prevTok' = prevTok
    ]_vars

\* a post whose token acquisition failed, on a client that has already
\* carried a request
C14_Witness ==
  /\ pc = "done" /\ op = "post" /\ calls = 1
  /\ credRaised.class = "Exception" /\ exOut = Raised(credRaised)
  /\ sent = 0 /\ client = SessionUsed(NewClient)

\* C13: in main's traversal every datasource handed back for a gateway gets
\* its user listing started, whatever happened to the user listings before it
\* (a failed listing does not stop the traversal).
C13_EveryDatasourceListed ==
  \A p \in Positions : (p \in returned) ~> (p \in attempted)

\* the listing of the first datasource failed and the second one was started
C13_Witness ==
  /\ <<1, 1>> \in ulFailed
  /\ <<1, 2>> \in returned /\ <<1, 2>> \in attempted

====
